---- MODULE Spec2Model ----
(***************************************************************************)
(* rosbag2csv: dump_bag writes one CSV file per topic of a ROS 2 bag,     *)
(* add_multi_indices then rewrites the header of every CSV file of the    *)
(* bag directory as a multi-index.                                        *)
(*                                                                         *)
(* Text is modelled as a sequence of tokens.  A token is an identifier, a *)
(* decimal numeral or one punctuation character ("." "," "/" "_" "[" "]");*)
(* identifiers and numerals never hold punctuation, so startswith, split, *)
(* replace, lstrip and join on tokens act as they do on characters.       *)
(***************************************************************************)
EXTENDS Integers, Sequences, FiniteSets, TLC

VARIABLES
    pc,          \* where the program is: start, usage, export, regroup, done, aborted
    bag,         \* the records reader.read_next() has returned so far
    file_map,    \* dump_bag's file_map: topic -> the file object opened for it
    log,         \* every open() and print(..., file=file) of dump_bag, in order
    start_time,  \* dump_bag's start_time
    msg_cnt,     \* dump_bag's msg_cnt
    stdout,      \* the progress values dump_bag prints
    flist,       \* add_multi_indices: the files the glob has still to yield
    visited,     \* add_multi_indices: the files handled so far, with the outcome
    disk,        \* add_multi_indices: file -> the column keys written by to_csv
    msg,         \* the message handed to _gen_msg_values
    flat,        \* the pairs _gen_msg_values yielded for msg
    columns,     \* df.columns as read_csv returned them
    cols_        \* add_multi_indices' cols_ for columns

vars == <<pc, bag, file_map, log, start_time, msg_cnt, stdout, flist, visited,
          disk, msg, flat, columns, cols_>>

exportVars == <<bag, file_map, log, start_time, msg_cnt, stdout, flist,
                visited, disk>>
flattenVars == <<msg, flat>>
regroupVars == <<columns, cols_>>

(***************************************************************************)
(* Bounds of the model.                                                    *)
(***************************************************************************)
MaxRecords == 3
MaxNodes == 6
MaxCols == 2
MaxNameLen == 4

(***************************************************************************)
(* Text.                                                                   *)
(***************************************************************************)
RECURSIVE Join(_, _)
\* sep.join(parts)
Join(parts, sep) ==
    IF parts = <<>> THEN <<>>
    ELSE IF Len(parts) = 1 THEN Head(parts)
    ELSE Head(parts) \o sep \o Join(Tail(parts), sep)

\* s.startswith(p)
StartsWith(s, p) == Len(s) >= Len(p) /\ SubSeq(s, 1, Len(p)) = p

\* the number of tokens of s equal to c
Count(s, c) == Cardinality({i \in 1..Len(s) : s[i] = c})

RECURSIVE LStrip(_, _)
\* s.lstrip(c)
LStrip(s, c) ==
    IF s # <<>> /\ Head(s) = c THEN LStrip(Tail(s), c) ELSE s

\* s.replace(old, new), old and new one character each
Replace(s, old, new) == [i \in 1..Len(s) |-> IF s[i] = old THEN new ELSE s[i]]

RECURSIVE Split(_, _, _)
\* s.split(sep, maxsplit)
Split(s, sep, maxsplit) ==
    IF maxsplit = 0 \/ Count(s, sep) = 0 THEN <<s>>
    ELSE LET k == CHOOSE i \in 1..Len(s) :
                      s[i] = sep /\ \A j \in 1..(i - 1) : s[j] # sep
         IN  <<SubSeq(s, 1, k - 1)>>
                 \o Split(SubSeq(s, k + 1, Len(s)), sep, maxsplit - 1)

(***************************************************************************)
(* Messages, as the deserializer hands them over.  A message value is a   *)
(* Python list, an object with get_fields_and_field_types() (a record,    *)
(* each field with its declared type), or anything else: a leaf, here an  *)
(* int or a str.  The value of a field declared sequence<...> is iterated *)
(* whatever it is: a list, or an array.array, which is no list.           *)
(***************************************************************************)
IntVal(n) == [tag |-> "int", i |-> n]
StrVal(s) == [tag |-> "str", s |-> s]
List(es) == [tag |-> "list", elems |-> es]
Array(es) == [tag |-> "array", elems |-> es]
Field(n, t, v) == [name |-> n, type |-> t, val |-> v]
Rec(fs) == [tag |-> "record", fields |-> fs]

Plain == <<"int32">>
SeqType == <<"sequence<", "int32", ">">>

\* isinstance(msg, list)
IsList(m) == m.tag = "list"
\* hasattr(msg, "get_fields_and_field_types")
HasFields(m) == m.tag = "record"
\* hasattr(msg, name)
HasAttr(m, name) == HasFields(m) /\ \E k \in 1..Len(m.fields) : m.fields[k].name = name
\* getattr(msg, name)
GetAttr(m, name) ==
    m.fields[CHOOSE k \in 1..Len(m.fields) : m.fields[k].name = name].val

\* str(val) of a leaf
str(v) == IF v.tag = "int" THEN <<ToString(v.i)>> ELSE v.s

(***************************************************************************)
(* _gen_msg_values(msg, prefix): the (path, leaf) pairs of msg, in order. *)
(***************************************************************************)
\* f"{prefix}[{i}]", i zero-based
Indexed(prefix, i) == prefix \o <<"[", ToString(i), "]">>

\* mutant: the field name is always appended after a separator
FullFieldNameAlwaysDot(prefix, field) == prefix \o <<".">> \o <<field>>
\* prefix + "." + field if prefix else field
FullFieldName(prefix, field) ==
    IF prefix # <<>> THEN prefix \o <<".">> \o <<field>> ELSE <<field>>

\* type_.startswith("sequence<")
IsSequenceType(type) == StartsWith(type, <<"sequence<">>)

RECURSIVE gen_msg_values(_, _)
RECURSIVE gen_elems(_, _, _)
RECURSIVE gen_fields(_, _, _)

\* for i, val in enumerate(elems): yield from _gen_msg_values(val, f"{prefix}[{i}]"),
\* from the k-th element on
gen_elems(elems, k, prefix) ==
    IF k > Len(elems) THEN <<>>
    ELSE gen_msg_values(elems[k], Indexed(prefix, k - 1))
             \o gen_elems(elems, k + 1, prefix)

\* for field, type_ in msg.get_fields_and_field_types().items(): ..., from the
\* k-th field on
gen_fields(fields, k, prefix) ==
    IF k > Len(fields) THEN <<>>
    ELSE LET f == fields[k]
             full_field_name == FullFieldName(prefix, f.name)
         IN  (IF IsSequenceType(f.type)
                 THEN gen_elems(f.val.elems, 1, full_field_name)
                 ELSE gen_msg_values(f.val, full_field_name))
                 \o gen_fields(fields, k + 1, prefix)

gen_msg_values(m, prefix) ==
    IF IsList(m) THEN gen_elems(m.elems, 1, prefix)
    ELSE IF HasFields(m) THEN gen_fields(m.fields, 1, prefix)
    ELSE <<[path |-> prefix, val |-> m]>>

(***************************************************************************)
(* The flattener on its own: a message is built up, then flattened from   *)
(* the empty prefix, as dump_bag calls it.                                 *)
(***************************************************************************)
RECURSIVE Size(_)
RECURSIVE SizeAll(_, _)
\* the number of values a message is made of
Size(m) ==
    IF m.tag \in {"list", "array"} THEN 1 + SizeAll(m.elems, 1)
    ELSE IF m.tag = "record"
        THEN 1 + SizeAll([k \in 1..Len(m.fields) |-> m.fields[k].val], 1)
    ELSE 1
SizeAll(vs, k) == IF k > Len(vs) THEN 0 ELSE Size(vs[k]) + SizeAll(vs, k + 1)

FieldNames == {"x", "items"}
Leaf1 == IntVal(1)
Leaf2 == IntVal(2)
LeafA == StrVal(<<"a">>)
RecV1 == Rec(<<Field("v", Plain, Leaf1)>>)
RecV2 == Rec(<<Field("v", Plain, Leaf2)>>)
Seeds == {Leaf1, LeafA, List(<<>>), Rec(<<>>), RecV1, RecV2}

\* the value of a field declared sequence<...>: a list, or an array.array when
\* every element is a primitive
SequenceValues(m) ==
    IF ~IsList(m) THEN {}
    ELSE {m} \cup (IF \A k \in 1..Len(m.elems) : m.elems[k].tag \in {"int", "str"}
                      THEN {Array(m.elems)} ELSE {})

NoExport ==
    /\ bag = <<>>
    /\ file_map = [t \in {} |-> 0]
    /\ log = <<>>
    /\ start_time = [tag |-> "None"]
    /\ msg_cnt = 0
    /\ stdout = <<>>
    /\ flist = {}
    /\ visited = <<>>
    /\ disk = [f \in {} |-> 0]

InitFlatten ==
    /\ pc = "build"
    /\ msg \in Seeds
    /\ flat = <<>>
    /\ columns = <<>>
    /\ cols_ = <<>>
    /\ NoExport

Built(m) ==
    /\ pc = "build"
    /\ Size(m) <= MaxNodes
    /\ msg' = m
    /\ UNCHANGED <<pc, flat>>
    /\ UNCHANGED exportVars
    /\ UNCHANGED regroupVars

WrapInList == Built(List(<<msg>>))

AppendElem == IsList(msg) /\ \E e \in Seeds : Built(List(Append(msg.elems, e)))

WrapInField == \E n \in FieldNames : Built(Rec(<<Field(n, Plain, msg)>>))

WrapInSequenceField ==
    \E n \in FieldNames : \E v \in SequenceValues(msg) :
        Built(Rec(<<Field(n, SeqType, v)>>))

AppendField ==
    /\ HasFields(msg)
    /\ \E n \in FieldNames : \E e \in Seeds :
        /\ ~HasAttr(msg, n)
        /\ \/ Built(Rec(Append(msg.fields, Field(n, Plain, e))))
           \/ \E v \in SequenceValues(e) :
                  Built(Rec(Append(msg.fields, Field(n, SeqType, v))))

Flatten ==
    /\ pc = "build"
    /\ pc' = "flattened"
    /\ flat' = gen_msg_values(msg, <<>>)
    /\ UNCHANGED msg
    /\ UNCHANGED exportVars
    /\ UNCHANGED regroupVars

NextFlatten ==
    \/ WrapInList
    \/ AppendElem
    \/ WrapInField
    \/ WrapInSequenceField
    \/ AppendField
    \/ Flatten

SpecFlatten == InitFlatten /\ [][NextFlatten]_vars

(***************************************************************************)
(* A message as the tree it is, told without the flattener: its leaves,   *)
(* each with the segments (field names and zero-based indices) that lead  *)
(* to it, in declaration and index order.                                  *)
(***************************************************************************)
RECURSIVE Leaves(_)
RECURSIVE LeavesAll(_, _)
Leaves(m) ==
    IF m.tag \in {"list", "array"} THEN LeavesAll(m.elems, 1)
    ELSE IF m.tag = "record"
        THEN LeavesAll([k \in 1..Len(m.fields) |-> m.fields[k].val], 1)
    ELSE 1
LeavesAll(vs, k) == IF k > Len(vs) THEN 0 ELSE Leaves(vs[k]) + LeavesAll(vs, k + 1)

RECURSIVE Addresses(_)
RECURSIVE AddressesAll(_, _, _)
Under(seg, m) ==
    LET as == Addresses(m)
    IN  [j \in 1..Len(as) |-> [segs |-> <<seg>> \o as[j].segs, val |-> as[j].val]]
Addresses(m) ==
    IF m.tag \in {"list", "array"}
        THEN AddressesAll([k \in 1..Len(m.elems) |->
                              [seg |-> [index |-> k - 1], val |-> m.elems[k]]], 1, <<>>)
    ELSE IF m.tag = "record"
        THEN AddressesAll([k \in 1..Len(m.fields) |->
                              [seg |-> [name |-> m.fields[k].name],
                               val |-> m.fields[k].val]], 1, <<>>)
    ELSE <<[segs |-> <<>>, val |-> m]>>
AddressesAll(children, k, acc) ==
    IF k > Len(children) THEN acc
    ELSE AddressesAll(children, k + 1, acc \o Under(children[k].seg, children[k].val))

RECURSIVE PathText(_)
\* the canonical text of a field path, a.b[2].c, written from its last segment back
PathText(segs) ==
    IF segs = <<>> THEN <<>>
    ELSE LET last == segs[Len(segs)]
             front == SubSeq(segs, 1, Len(segs) - 1)
         IN  IF "index" \in DOMAIN last
                 THEN PathText(front) \o <<"[", ToString(last.index), "]">>
             ELSE IF front = <<>> THEN <<last.name>>
             ELSE PathText(front) \o <<".", last.name>>

ScenarioB == Rec(<<Field("items", SeqType, List(<<RecV1, RecV2>>))>>)

\* C6: flattening a finite message yields exactly one (path, value) pair per
\* leaf, as many pairs as the message has leaves, in declaration order for
\* fields and index order for sequence elements, each path the canonical text
\* a.b[i].c of the leaf's place and each value the leaf; an empty sequence or a
\* record with no fields yields nothing; items: [{v:1},{v:2}] yields
\* items[0].v and items[1].v.
C6_OnePairPerLeaf ==
    pc = "flattened" =>
        /\ Len(flat) = Leaves(msg)
        /\ LET as == Addresses(msg)
           IN  /\ Len(flat) = Len(as)
               /\ \A j \in 1..Len(flat) :
                      /\ flat[j].path = PathText(as[j].segs)
                      /\ flat[j].val = as[j].val
        /\ (msg \in {List(<<>>), Rec(<<>>)} => flat = <<>>)
        /\ (msg = ScenarioB =>
                flat = << [path |-> <<"items", "[", "0", "]", ".", "v">>, val |-> Leaf1],
                          [path |-> <<"items", "[", "1", "]", ".", "v">>, val |-> Leaf2] >>)

C6_Witness ==
    /\ pc = "flattened"
    /\ msg = ScenarioB

(***************************************************************************)
(* add_multi_indices' key of one column name.                              *)
(***************************************************************************)
MaxSplit == 2

Time == <<"time">>
Timestamp == <<"timestamp">>

\* mutant: the name is split at every separator
IndexesUnlimited(col) ==
    IF col = Time THEN << <<"RosBag">>, <<"timestamp">> >>
    ELSE IF col = Timestamp THEN << <<"IMUDataArray">>, <<"timestamp">> >>
    ELSE Split(col, ".", -1)
\* the if/elif/else of the loop over df.columns
Indexes(col) ==
    IF col = Time THEN << <<"RosBag">>, <<"timestamp">> >>
    ELSE IF col = Timestamp THEN << <<"IMUDataArray">>, <<"timestamp">> >>
    ELSE Split(col, ".", MaxSplit)

\* cols_ once the loop over df.columns has ended
Keys(cols) == [i \in 1..Len(cols) |-> Indexes(cols[i])]

(***************************************************************************)
(* The regrouper's keys on their own: df.columns is any header of up to   *)
(* MaxCols names of up to MaxNameLen tokens, or the header time,x,y.a.    *)
(***************************************************************************)
NameTokens == {"a", "."}
Names ==
    {Time, Timestamp}
        \cup UNION {[1..n -> NameTokens] : n \in 1..MaxNameLen}
ScenarioE == <<Time, <<"x">>, <<"y", ".", "a">>>>
Headers == {ScenarioE} \cup UNION {[1..n -> Names] : n \in 1..MaxCols}

InitRegroup ==
    /\ pc = "read_csv"
    /\ columns \in Headers
    /\ cols_ = <<>>
    /\ msg = Leaf1
    /\ flat = <<>>
    /\ NoExport

Regroup ==
    /\ pc = "read_csv"
    /\ pc' = "to_csv"
    /\ cols_' = Keys(columns)
    /\ UNCHANGED columns
    /\ UNCHANGED exportVars
    /\ UNCHANGED flattenVars

NextRegroup == Regroup

SpecRegroup == InitRegroup /\ [][NextRegroup]_vars

Min(a, b) == IF a < b THEN a ELSE b

\* C8: the regrouper gives one key per column, in column order: time gets
\* (RosBag, timestamp), timestamp gets (IMUDataArray, timestamp), any other
\* name is cut at its first two dots at most, into at most three components of
\* which only the last may hold a dot and which, joined by dots, give the name
\* back; a name without a dot is its own single component; the header
\* time,x,y.a gets (RosBag,timestamp), (x), (y,a).
C8_KeyPerColumn ==
    pc = "to_csv" =>
        /\ Len(cols_) = Len(columns)
        /\ \A i \in 1..Len(columns) :
               LET col == columns[i]
                   key == cols_[i]
               IN  /\ col = Time => key = << <<"RosBag">>, <<"timestamp">> >>
                   /\ col = Timestamp => key = << <<"IMUDataArray">>, <<"timestamp">> >>
                   /\ col \notin {Time, Timestamp} =>
                          /\ Len(key) = Min(Count(col, ".") + 1, 3)
                          /\ Join(key, <<".">>) = col
                          /\ \A j \in 1..(Len(key) - 1) : Count(key[j], ".") = 0
                          /\ (Count(col, ".") = 0 => key = <<col>>)
        /\ (columns = ScenarioE =>
                cols_ = << << <<"RosBag">>, <<"timestamp">> >>,
                           << <<"x">> >>,
                           << <<"y">>, <<"a">> >> >>)

\* a name with more than two dots has been keyed, beside time and timestamp
C8_Witness ==
    /\ pc = "to_csv"
    /\ \E i \in 1..Len(columns) : Count(columns[i], ".") > 2 /\ Len(cols_[i]) = 3
    /\ \E i \in 1..Len(columns) : columns[i] \in {Time, Timestamp}


(***************************************************************************)
(* Numbers.  A Python number is whole + nanos * 1e-9 with 0 <= nanos <    *)
(* NanoPerSec, and is a float or an int; float rounding is left out.      *)
(***************************************************************************)
NanoPerSec == 1000000000

None == [tag |-> "None"]
IntNum(n) == [whole |-> n, nanos |-> 0, isfloat |-> FALSE]
\* sec + 1e-9*nanosec
FloatSeconds(sec, nanosec) ==
    [whole |-> sec + (nanosec \div NanoPerSec), nanos |-> nanosec % NanoPerSec,
     isfloat |-> TRUE]
\* a - b
Sub(a, b) ==
    LET d == a.nanos - b.nanos
    IN  [whole |-> a.whole - b.whole - (IF d < 0 THEN 1 ELSE 0),
         nanos |-> IF d < 0 THEN d + NanoPerSec ELSE d,
         isfloat |-> a.isfloat \/ b.isfloat]
\* a == b, as Python compares an int and a float
NumEq(a, b) == a.whole = b.whole /\ a.nanos = b.nanos
\* str(x) of a number: digits, a sign, and for a float a point
StrNum(x) ==
    IF ~x.isfloat THEN <<ToString(x.whole)>>
    ELSE IF x.whole >= 0 THEN <<ToString(x.whole), ".", ToString(x.nanos)>>
    ELSE IF x.nanos = 0 THEN <<"-", ToString(-x.whole), ".", "0">>
    ELSE <<"-", ToString(-(x.whole + 1)), ".", ToString(NanoPerSec - x.nanos)>>

(***************************************************************************)
(* The bag: topics, their messages, and the records the reader yields.    *)
(* A record is (topic, data, ts); ts is the time the bag recorded the     *)
(* message at, an int of nanoseconds.  data is held deserialized.         *)
(***************************************************************************)
Rosout == <<"/", "rosout">>
ParameterEvents == <<"/", "parameter", "_", "events">>
TopicImu == <<"/", "imu">>
TopicAB == <<"/", "a", "/", "b">>
TopicA_B == <<"/", "a", "_", "b">>

StringType == <<"string">>
\* a message with a std_msgs/Header
ImuMsg(sec, nanosec) ==
    Rec(<<Field("header", <<"std_msgs/Header">>,
              Rec(<<Field("stamp", <<"builtin_interfaces/Time">>,
                        Rec(<<Field("sec", Plain, IntVal(sec)),
                              Field("nanosec", <<"uint32">>, IntVal(nanosec))>>)),
                    Field("frame_id", StringType, StrVal(<<"imu">>))>>)),
          Field("timestamp", <<"uint64">>, IntVal(7)),
          Field("acc", <<"geometry_msgs/Vector3">>,
              Rec(<<Field("x", <<"double">>, IntVal(1))>>))>>)
\* std_msgs/Int32MultiArray's data, as tests/array/gen.py publishes it
ArrayMsg(data) == Rec(<<Field("data", SeqType, Array(data))>>)
\* std_msgs/String
StringMsg(s) == Rec(<<Field("data", StringType, StrVal(s))>>)

Record(topic, data, ts) == [topic |-> topic, data |-> data, ts |-> ts]
\* half a second, the timer period of tests/array/gen.py, in nanoseconds
HalfSec == NanoPerSec \div 2
T0 == NanoPerSec
T1 == NanoPerSec + HalfSec
Stream ==
    { Record(Rosout, StringMsg(<<"a">>), T0),
      Record(ParameterEvents, StringMsg(<<"a">>), T1),
      Record(TopicImu, ImuMsg(1, 0), T0),
      Record(TopicImu, ImuMsg(1, HalfSec), T1),
      Record(TopicAB, ArrayMsg(<<Leaf1>>), T0),
      Record(TopicAB, ArrayMsg(<<Leaf2>>), T1),
      Record(TopicAB, ArrayMsg(<<Leaf1, Leaf2>>), T1),
      Record(TopicA_B, StringMsg(<<"a">>), T0),
      Record(TopicA_B, StringMsg(<<"a", ",", "b">>), T1) }

(***************************************************************************)
(* dump_bag.                                                               *)
(***************************************************************************)
\* mutant: only /rosout is skipped
IsExcludedRosoutOnly(topic) == topic = Rosout
\* topic in ["/rosout", "/parameter_events"]
IsExcluded(topic) == topic \in {Rosout, ParameterEvents}

\* mutant: a file is opened for every record
NeedsOpenAlways(topic, fm) == TRUE
\* topic not in file_map
NeedsOpen(topic, fm) == topic \notin DOMAIN fm

\* topic.lstrip("/").replace("/", "_"), then ".csv"
FileName(topic) == Replace(LStrip(topic, "/"), "/", "_") \o <<".", "csv">>

\* field.startswith("header.")
IsHeaderField(path) == StartsWith(path, <<"header", ".">>)

\* [x for field, val in _gen_msg_values(msg) if not field.startswith("header.")]
Kept(m) ==
    SelectSeq(gen_msg_values(m, <<>>), LAMBDA p : ~IsHeaderField(p.path))

\* "time," + ','.join(fields)
HeaderText(m) ==
    LET kept == Kept(m)
    IN  <<"time", ",">> \o Join([j \in 1..Len(kept) |-> kept[j].path], <<",">>)

\* ','.join([str(t - start_time)] + [str(val) for ...])
RowText(delta, m) ==
    LET kept == Kept(m)
    IN  Join(<<StrNum(delta)>> \o [j \in 1..Len(kept) |-> str(kept[j].val)], <<",">>)

\* msg.header.stamp.sec + 1e-9*msg.header.stamp.nanosec if the message has a
\* header, else ts
TimeOf(r) ==
    IF HasAttr(r.data, "header")
        THEN LET stamp == GetAttr(GetAttr(r.data, "header"), "stamp")
             IN  FloatSeconds(GetAttr(stamp, "sec").i, GetAttr(stamp, "nanosec").i)
        ELSE IntNum(r.ts)

\* mutant: the origin follows the latest record
NextStartTimeLatest(st, t) == t
\* if start_time is None: start_time = t
NextStartTime(st, t) == IF st = None THEN t ELSE st

ProgressEvery == 1000

Event(kind, topic, text, time, rec) ==
    [kind |-> kind, topic |-> topic, text |-> text, time |-> time, rec |-> rec]

InitExport ==
    /\ pc = "start"
    /\ NoExport
    /\ msg = Leaf1
    /\ flat = <<>>
    /\ columns = <<>>
    /\ cols_ = <<>>

\* the main program: with one argument dump_bag is called, otherwise the
\* usage message is printed and the program exits with status 1
Main ==
    /\ pc = "start"
    /\ \E argc \in {1, 2, 3} : pc' = IF argc = 2 THEN "export" ELSE "usage"
    /\ UNCHANGED exportVars
    /\ UNCHANGED flattenVars
    /\ UNCHANGED regroupVars

\* one turn of the while loop: read_next, then the body
ReadNext ==
    /\ pc = "export"
    /\ Len(bag) < MaxRecords
    /\ \E r \in Stream :
        LET n == Len(bag) + 1
            topic == r.topic
            open == NeedsOpen(topic, file_map)
            t == TimeOf(r)
            st == NextStartTime(start_time, t)
            delta == Sub(t, st)
        IN  /\ bag' = Append(bag, r)
            /\ IF IsExcluded(topic)
                 THEN UNCHANGED <<file_map, log, start_time, msg_cnt, stdout>>
                 ELSE /\ file_map' =
                            IF open
                              THEN [c \in DOMAIN file_map \cup {topic} |->
                                      IF c = topic
                                        THEN [name |-> FileName(topic), state |-> "open"]
                                        ELSE file_map[c]]
                              ELSE file_map
                      /\ log' = log
                            \o (IF open
                                  THEN << Event("open", topic, FileName(topic), IntNum(0), n),
                                          Event("header", topic, HeaderText(r.data),
                                                IntNum(0), n) >>
                                  ELSE <<>>)
                            \o << Event("row", topic, RowText(delta, r.data), delta, n) >>
                      /\ start_time' = st
                      /\ stdout' = IF msg_cnt % ProgressEvery = 0
                                     THEN Append(stdout, delta) ELSE stdout
                      /\ msg_cnt' = msg_cnt + 1
    /\ UNCHANGED <<pc, flist, visited, disk>>
    /\ UNCHANGED flattenVars
    /\ UNCHANGED regroupVars

\* read_next, get_message or deserialize_message raises: nothing catches it
ReadFails ==
    /\ pc = "export"
    /\ Len(bag) < MaxRecords
    /\ pc' = "aborted"
    /\ UNCHANGED exportVars
    /\ UNCHANGED flattenVars
    /\ UNCHANGED regroupVars

\* has_next() is false: dump_bag returns without closing a file.  Its file
\* objects become unreachable; whether they are finalized (flushed and closed)
\* at once or later is the interpreter's choice.  The main program then globs
\* the bag directory.
DumpBagReturns ==
    /\ pc = "export"
    /\ pc' = "regroup"
    /\ \E finalized \in BOOLEAN :
           file_map' = [c \in DOMAIN file_map |->
                          [file_map[c] EXCEPT !.state =
                              IF finalized THEN "finalized" ELSE "open"]]
    /\ flist' = {file_map[c].name : c \in DOMAIN file_map}
    /\ UNCHANGED <<bag, log, start_time, msg_cnt, stdout, visited, disk>>
    /\ UNCHANGED flattenVars
    /\ UNCHANGED regroupVars

(***************************************************************************)
(* add_multi_indices.                                                      *)
(***************************************************************************)
\* the header lines written to file f
HeadersOf(f) ==
    {log[k].text : k \in {j \in 1..Len(log) :
                            log[j].kind = "header" /\ FileName(log[j].topic) = f}}

\* mutant: a failure ends the pass
AfterFileUncaught(ok) == IF ok THEN "regroup" ELSE "aborted"
\* try: ... except Exception as e: print(...): the loop goes on either way
AfterFile(ok) == "regroup"

\* one turn of the for loop: the glob yields a file; reading, keying and
\* rewriting it succeeds or raises
RegroupFile ==
    /\ pc = "regroup"
    /\ \E f \in flist : \E ok \in BOOLEAN : \E header \in HeadersOf(f) :
        /\ flist' = flist \ {f}
        /\ visited' = Append(visited, [file |-> f, ok |-> ok])
        /\ disk' = IF ok
                     THEN [g \in DOMAIN disk \cup {f} |->
                             IF g = f THEN Keys(Split(header, ",", -1)) ELSE disk[g]]
                     ELSE disk
        /\ pc' = AfterFile(ok)
    /\ UNCHANGED <<bag, file_map, log, start_time, msg_cnt, stdout>>
    /\ UNCHANGED flattenVars
    /\ UNCHANGED regroupVars

\* the glob is exhausted: add_multi_indices returns and the program ends
RegroupEnds ==
    /\ pc = "regroup"
    /\ flist = {}
    /\ pc' = "done"
    /\ UNCHANGED exportVars
    /\ UNCHANGED flattenVars
    /\ UNCHANGED regroupVars

Init == InitExport

Next ==
    \/ Main
    \/ ReadNext
    \/ ReadFails
    \/ DumpBagReturns
    \/ RegroupFile
    \/ RegroupEnds

Spec == Init /\ [][Next]_vars


(***************************************************************************)
(* What the export has done, read off the bag and the log.                 *)
(***************************************************************************)
Reserved == {Rosout, ParameterEvents}
Rows == SelectSeq(log, LAMBDA e : e.kind = "row")
EventsOf(topic) == SelectSeq(log, LAMBDA e : e.topic = topic)
IndicesOf(topic) == {k \in 1..Len(bag) : bag[k].topic = topic}
Processed == {k \in 1..Len(bag) : bag[k].topic \notin Reserved}
Lowest(S) == CHOOSE k \in S : \A j \in S : k <= j
FirstOf(topic) == bag[Lowest(IndicesOf(topic))]
\* the paths of a message's leaves, from its tree
PathsOf(m) ==
    LET as == Addresses(m) IN [j \in 1..Len(as) |-> PathText(as[j].segs)]
NotUnderHeader(path) == ~(Len(path) >= 2 /\ path[1] = "header" /\ path[2] = ".")

\* the origin and the rows' times, in one state
C1_Rows ==
    /\ (Processed = {} => start_time = None /\ Rows = <<>>)
    /\ (Processed # {} =>
            LET origin == TimeOf(bag[Lowest(Processed)])
            IN  /\ start_time = origin
                /\ Len(Rows) = Cardinality(Processed)
                /\ Rows[1].rec = Lowest(Processed)
                /\ NumEq(Rows[1].time, IntNum(0))
                /\ \A j \in 1..Len(Rows) :
                       Rows[j].time = Sub(TimeOf(bag[Rows[j].rec]), origin))
\* C1: start_time is None until the first record of a channel that is not
\* reserved is processed, is that record's timestamp from then on and never
\* changes; every data row's time is its record's timestamp minus that origin,
\* and the first row written has time 0.
C1_OriginSetOnce ==
    /\ []C1_Rows
    /\ [][start_time # None => start_time' = start_time]_vars

\* rows of two channels, the later one at another time than the origin
C1_Witness ==
    /\ Len(Rows) >= 2
    /\ Rows[1].topic # Rows[2].topic
    /\ ~NumEq(Rows[2].time, IntNum(0))
    /\ start_time = TimeOf(bag[Rows[1].rec])

\* the instant a record's timestamp names, in nanoseconds: the header stamp
\* is (sec, nanosec), the bag's ts is nanoseconds
InstantNs(r) ==
    IF HasAttr(r.data, "header")
        THEN LET stamp == GetAttr(GetAttr(r.data, "header"), "stamp")
             IN  GetAttr(stamp, "sec").i * NanoPerSec + GetAttr(stamp, "nanosec").i
        ELSE r.ts
Seconds(ns) == [whole |-> ns \div NanoPerSec, nanos |-> ns % NanoPerSec]

\* C2: every data row's time is the time elapsed between the origin record
\* and the row's record, in seconds, whether the timestamps come from the
\* header stamp or from the bag: records 0.5 s apart give 0.0 and 0.5.
C2_RelativeSeconds ==
    \A j \in 1..Len(Rows) :
        NumEq(Rows[j].time,
              Seconds(InstantNs(bag[Rows[j].rec]) - InstantNs(bag[Rows[1].rec])))

\* no file, event, count or origin comes from a reserved channel
C3_NoTrace ==
    /\ \A c \in DOMAIN file_map : c \notin Reserved
    /\ \A k \in 1..Len(log) :
           log[k].topic \notin Reserved /\ bag[log[k].rec].topic \notin Reserved
    /\ msg_cnt = Cardinality(Processed)
    /\ (Processed = {} => start_time = None /\ stdout = <<>>)
\* C3: a record of /rosout or /parameter_events opens no file, writes
\* nothing, sets no origin and is not counted, wherever it comes in the
\* stream: the turn of the loop that reads it changes nothing but the
\* reader's position.
C3_ExcludedSkipped ==
    /\ []C3_NoTrace
    /\ [][(Len(bag') = Len(bag) + 1 /\ bag'[Len(bag')].topic \in Reserved)
              => UNCHANGED <<file_map, log, start_time, msg_cnt, stdout>>]_vars

\* each reserved channel read, between records of other channels
C3_Witness ==
    /\ Len(bag) = 3
    /\ bag[1].topic \notin Reserved
    /\ bag[2].topic = ParameterEvents
    /\ bag[3].topic \notin Reserved
    /\ msg_cnt = 2

\* C4: for every channel that is not reserved, what dump_bag does to its file
\* is: one open and one header row, both when the channel's first record is
\* processed, then one data row per record of the channel; the header is
\* time followed by the paths of that first record that are not under
\* header., whatever the shape of the later records.
C4_HeaderOnce ==
    \A c \in {bag[k].topic : k \in Processed} :
        /\ c \in DOMAIN file_map
        /\ LET ev == EventsOf(c)
               first == Lowest(IndicesOf(c))
               schema == SelectSeq(PathsOf(bag[first].data), NotUnderHeader)
           IN  /\ Len(ev) = Cardinality(IndicesOf(c)) + 2
               /\ ev[1].kind = "open" /\ ev[1].rec = first
               /\ ev[2].kind = "header" /\ ev[2].rec = first
               /\ ev[2].text = Join(<<Time>> \o schema, <<",">>)
               /\ \A col \in 1..Len(schema) : ~StartsWith(schema[col], <<"header", ".">>)
               /\ \A j \in 3..Len(ev) : ev[j].kind = "row"

\* a channel with a header, and a channel whose second record has another
\* shape than its first
C4_Witness ==
    /\ Len(bag) = 3
    /\ bag[1].topic = TopicImu
    /\ bag[2].topic = TopicAB /\ bag[3].topic = TopicAB
    /\ PathsOf(bag[2].data) # PathsOf(bag[3].data)

\* C5: a data row for a record of the shape of its channel's first record
\* has N + 1 comma-separated fields, N the number of paths of the channel's
\* schema, whatever the leaves hold.
C5_RowWidth ==
    \A j \in 1..Len(Rows) :
        LET first == FirstOf(Rows[j].topic).data
            N == Len(SelectSeq(PathsOf(first), NotUnderHeader))
        IN  PathsOf(bag[Rows[j].rec].data) = PathsOf(first)
                => Count(Rows[j].text, ",") + 1 = N + 1

\* C7: once the export phase has ended, by return or by an error, every file
\* it opened has been closed by a close of its own; none is open when the
\* regrouper starts.
C7_ClosedAfterExport ==
    pc \in {"regroup", "done", "aborted"} =>
        \A c \in DOMAIN file_map : file_map[c].state = "closed"

\* C9: a file whose regrouping fails is reported and passed over: the pass
\* visits every file of the directory once, none twice, and ends normally;
\* only the export can abort the run.
C9_EveryFileVisited ==
    LET all == {file_map[c].name : c \in DOMAIN file_map}
        seen == {visited[k].file : k \in 1..Len(visited)}
    IN  /\ pc \in {"regroup", "done"} =>
               /\ seen \cup flist = all
               /\ seen \cap flist = {}
               /\ Cardinality(seen) = Len(visited)
        /\ pc = "regroup" => ENABLED (RegroupFile \/ RegroupEnds)
        /\ pc = "done" => flist = {}
        /\ pc \in {"start", "usage", "export", "aborted"} => visited = <<>>
        /\ \A f \in DOMAIN disk :
               \E k \in 1..Len(visited) : visited[k].file = f /\ visited[k].ok

\* the pass has ended after a failure on its first file and a success on its
\* second
C9_Witness ==
    /\ pc = "done"
    /\ Len(visited) = 2
    /\ ~visited[1].ok
    /\ visited[2].ok

\* C10: two channels never share an output file.
C10_DistinctFiles ==
    \A c \in DOMAIN file_map : \A d \in DOMAIN file_map :
        c # d => file_map[c].name # file_map[d].name


====
